---- MODULE Spec2Model ----
(***************************************************************************)
(* Portfolio accounting of the trade-analysis app: the unrealized-position *)
(* table (modules/data_loader.py), the KPI snapshot, the equity curve and  *)
(* the trade summary table (modules/kpi.py), and the way app.py main()     *)
(* chains them.                                                            *)
(*                                                                         *)
(* Representation.  A DataFrame is a record [columns, rows]: the set of    *)
(* its column names and the sequence of its rows; pd.DataFrame() is the    *)
(* frame with no column and no row.  The ledger is such a frame too: the   *)
(* one load_trade_data reads from a file carries the ledger columns, the   *)
(* one it returns for a missing file carries none, and a file without      *)
(* header line makes it raise.  Currency amounts,                          *)
(* prices and quantities are integers and calendar dates are day numbers.  *)
(* A floating-point value is the record [num, den, scale]: the double the  *)
(* code gets by dividing num by den and multiplying the rounded quotient   *)
(* by scale, each operation rounding to the nearest double; scale is 1     *)
(* for a plain quotient.  Strings of the source are written in ASCII:      *)
(* "closed" is the status 売却済, "holding" is 保有中; in the ledger the   *)
(* column "pnl" is 実現損益, in the other tables "pnl" is 損益 and         *)
(* "unrealized_pnl" is 含み損益.                                           *)
(***************************************************************************)
EXTENDS Integers, Sequences, FiniteSets, TLC

VARIABLES pc, market, ledger_file, df, fetched, unrealized_df, kpis, equity_df, summary_table, raised

\* modules/trade_plot.py: the trade that is charted, the price series that
\* was fetched for it and the chart that was drawn
VARIABLES trade_row, today, stock_data, chart

\* modules/notion_sync.py, fetch_notion_database: the records of the Notion
\* database, the requests sent and the responses received so far, the locals
\* of the loop and what the call returned
VARIABLES records, requests, responses, all_results, has_more, start_cursor, returned

\* modules/notion_sync.py, sync_all_databases: the configured database ids,
\* the position in the list of datasets, what each Notion fetch did, the
\* files written locally and on GitHub, the datasets whose push failed and
\* the results dictionary
VARIABLES db_ids, sync_pos, notion_log, local_files, github_files, push_errors, results

plotVars == <<trade_row, today, stock_data, chart>>

fetchVars == <<records, requests, responses, all_results, has_more, start_cursor, returned>>

syncVars == <<db_ids, sync_pos, notion_log, local_files, github_files, push_errors, results>>

accountingVars == <<ledger_file, df, fetched, unrealized_df, kpis, equity_df, summary_table, raised>>

vars == <<pc, market, accountingVars, plotVars, fetchVars, syncVars>>

(* ------------------------------ bounds --------------------------------- *)

\* longest ledger explored
MaxTrades == 3

\* last calendar day of the charts explored
MaxDay == 5

\* most pages a Notion database holds
MaxRecords == 250

(* ------------------------- program constants --------------------------- *)

\* pandas NaT, what pd.to_datetime(errors='coerce') gives a missing date
NaT == 0

\* config.CAPITAL
CAPITAL == [japan |-> 100000, us |-> 500]

Markets == {"japan", "us"}

(* ---------------------------- input domains ---------------------------- *)

BuyDates == {1, 2}
SellDates == {2, 3}
\* purchase dates of the trades still held
HoldingBuyDates == {1}
\* evaluation times pd.Timestamp.now() may return
Times == {2, 4}
\* (realized P&L, percentage change) of a closed trade, equal in sign
PnlRates == {<<0 - 300, 0 - 3>>, <<0, 0>>, <<500, 5>>}
\* purchase unit prices and quantities of open trades
BuyPrices == {0, 50}
Quantities == {5}
\* the valuation P&L Notion stores in the realized-P&L field of an open trade
OpenPnls == {70}
\* closing prices the market-data service may report
ClosePrices == {40, 60}

\* a closed trade was sold after it was bought
ClosedTrades ==
    { [name |-> "toyota", code |-> "7203", status |-> "closed",
       buyDate |-> d[1], sellDate |-> d[2], buyPrice |-> 1000, qty |-> 10,
       pnl |-> pr[1], rate |-> pr[2]] :
        d \in { e \in BuyDates \X SellDates : e[1] < e[2] }, pr \in PnlRates }

OpenTrades ==
    { [name |-> "sony", code |-> "6758", status |-> "holding",
       buyDate |-> b, sellDate |-> NaT, buyPrice |-> p, qty |-> q,
       pnl |-> v, rate |-> 0] :
        b \in HoldingBuyDates, p \in BuyPrices, q \in Quantities, v \in OpenPnls }

Trades == ClosedTrades \cup OpenTrades

\* the ledger file of a market and style: missing; without header line, as
\* sync_all_databases writes it for a Notion database without pages; or
\* with the header line and some trades
LedgerFiles ==
    [exists : {FALSE}, header : {FALSE}, rows : {<<>>}]
        \cup [exists : {TRUE}, header : {FALSE}, rows : {<<>>}]
        \cup [exists : {TRUE}, header : {TRUE},
              rows : UNION { [1..n -> Trades] : n \in 0..MaxTrades }]

\* what yf.download does for one ticker: it raises, returns an empty frame,
\* returns a frame without a usable Close, or returns a frame whose last
\* Close is a price
FetchOutcomes ==
    [kind : {"raise", "empty", "no_close"}, close : {0}]
        \cup [kind : {"close"}, close : ClosePrices]

(* ------------------------------ helpers -------------------------------- *)

\* Series.sum()
RECURSIVE SumSeq(_)
SumSeq(s) == IF s = <<>> THEN 0 ELSE Head(s) + SumSeq(Tail(s))

\* column projection frame[col] of a sequence of rows
Column(rows, col) == [i \in 1..Len(rows) |-> rows[i][col]]

\* the double n / d * s: the quotient rounded, then the product rounded
Float(n, d, s) == [num |-> n, den |-> d, scale |-> s]

\* the double n / d
Frac(n, d) == Float(n, d, 1)

\* pd.DataFrame()
EmptyFrame == [columns |-> {}, rows |-> <<>>]

\* DataFrame.empty
IsEmpty(frame) == frame.columns = {} \/ frame.rows = <<>>

\* the rows of df[df["ステータス"] == status]
WithStatus(ledger, status) == SelectSeq(ledger.rows, LAMBDA t : t.status = status)

\* what a function gives its caller when it raises KeyError
KeyError == [raised |-> "KeyError"]

\* what pd.read_csv raises for a file that has no header line
EmptyDataError == [raised |-> "EmptyDataError"]

\* whether the result of a call is an exception
Raised(result) == "raised" \in DOMAIN result

(* ----------------------- modules/data_loader.py ----------------------- *)

\* the columns of a ledger file
LedgerColumns ==
    {"name", "code", "status", "buyDate", "sellDate", "buyPrice", "qty", "pnl", "rate"}

\* load_trade_data: pd.DataFrame() when the file is missing; the exception
\* of pd.read_csv, which nothing catches, when the file has no header line;
\* else the frame read from it, which has the ledger columns also when it
\* has no row
load_trade_data(file) ==
    IF ~file.exists THEN EmptyFrame
    ELSE IF ~file.header THEN EmptyDataError
    ELSE [columns |-> LedgerColumns, rows |-> file.rows]

\* the ledgers load_trade_data may return
Ledgers ==
    { load_trade_data(file) : file \in { f \in LedgerFiles : ~Raised(load_trade_data(f)) } }

\* an optional float: None, or a price
None == [none |-> TRUE, value |-> 0]
Some(v) == [none |-> FALSE, value |-> v]

\* get_current_price, given what yf.download did (download): every failure, a raised
\* exception included, ends in None
get_current_price(download) ==
    CASE download.kind = "raise"    -> None
      [] download.kind = "empty"    -> None
      [] download.kind = "no_close" -> None
      [] download.kind = "close"    -> Some(download.close)

\* positions of the trades that are still held
HoldingIdx(ledger) == { i \in 1..Len(ledger.rows) : ledger.rows[i].status = "holding" }

\* the columns of the table calculate_unrealized_pnl builds
UnrealizedColumns ==
    {"name", "code", "buyDate", "buyPrice", "current_price", "quantity",
     "purchase_value", "current_value", "unrealized_pnl", "rate"}

\* a percentage change that divides whatever was paid
PnlRateUnguarded(pnl, purchase_value) == Float(pnl, purchase_value, 100)

\* percentage change of a position, 0 when nothing was paid
pnl_rate(pnl, purchase_value) ==
    IF purchase_value > 0 THEN Float(pnl, purchase_value, 100) ELSE Frac(0, 1)

\* a fallback that reports no price at all
FallbackPriceZero(row) == 0

\* the price used for a trade whose lookup returned None
FallbackPrice(row) == row.buyPrice

\* the body of the loop of calculate_unrealized_pnl for one held trade
UnrealizedRow(row, download) ==
    LET looked_up      == get_current_price(download)
        current_price  == IF looked_up.none THEN FallbackPrice(row) ELSE looked_up.value
        quantity       == row.qty
        purchase_price == row.buyPrice
        current_value  == current_price * quantity
        purchase_value == purchase_price * quantity
        pnl            == current_value - purchase_value
    IN  [name |-> row.name, code |-> row.code, buyDate |-> row.buyDate,
         buyPrice |-> purchase_price, current_price |-> current_price,
         quantity |-> quantity, purchase_value |-> purchase_value,
         current_value |-> current_value, unrealized_pnl |-> pnl,
         rate |-> pnl_rate(pnl, purchase_value)]

RECURSIVE UnrealizedRows(_, _, _)
UnrealizedRows(ledger, fetch, i) ==
    IF i > Len(ledger.rows) THEN <<>>
    ELSE IF ledger.rows[i].status = "holding"
         THEN <<UnrealizedRow(ledger.rows[i], fetch[i])>>
                  \o UnrealizedRows(ledger, fetch, i + 1)
         ELSE UnrealizedRows(ledger, fetch, i + 1)

\* a table that is returned from inside the loop, after the first position
UnrealizedFirstOnly(ledger, fetch) ==
    IF "status" \notin ledger.columns THEN KeyError
    ELSE IF HoldingIdx(ledger) = {} THEN EmptyFrame
    ELSE [columns |-> UnrealizedColumns,
          rows |-> <<Head(UnrealizedRows(ledger, fetch, 1))>>]

\* calculate_unrealized_pnl; fetch[i] is what the price service does for the
\* held trade at position i of the ledger.  Selecting on ステータス raises
\* KeyError when the ledger has no such column
calculate_unrealized_pnl(ledger, fetch) ==
    IF "status" \notin ledger.columns THEN KeyError
    ELSE IF HoldingIdx(ledger) = {} THEN EmptyFrame
    ELSE [columns |-> UnrealizedColumns, rows |-> UnrealizedRows(ledger, fetch, 1)]

(* --------------------------- modules/kpi.py ---------------------------- *)

\* winners that also take in the trades that broke even
WinnersOrEven(closed_trades) == SelectSeq(closed_trades, LAMBDA t : t.pnl >= 0)

\* closed_trades[closed_trades["実現損益"] > 0]
Winners(closed_trades) == SelectSeq(closed_trades, LAMBDA t : t.pnl > 0)

\* closed_trades[closed_trades["実現損益"] < 0]
Losers(closed_trades) == SelectSeq(closed_trades, LAMBDA t : t.pnl < 0)

\* Series.mean() guarded by Series.empty
MeanOrZero(series) ==
    IF series # <<>> THEN Frac(SumSeq(series), Len(series)) ELSE Frac(0, 1)

\* a win rate taken against the losers instead of all closed trades
WinRateOverLosers(closed_trades) ==
    IF Len(closed_trades) > 0
    THEN Float(Len(Winners(closed_trades)), Len(Losers(closed_trades)), 100)
    ELSE Frac(0, 1)

\* the win rate of the closed trades, in percent
WinRate(closed_trades) ==
    IF Len(closed_trades) > 0
    THEN Float(Len(Winners(closed_trades)), Len(closed_trades), 100)
    ELSE Frac(0, 1)

\* realized P&L of the closed trades
RealizedPnl(closed_trades) ==
    IF closed_trades # <<>> THEN SumSeq(Column(closed_trades, "pnl")) ELSE 0

\* the total the KPI module reads off the unrealized-position table: the sum
\* of its 損益 column, 0 when the table is empty or has no such column
UnrealizedPnl(unrealized) ==
    IF ~IsEmpty(unrealized) /\ "pnl" \in unrealized.columns
    THEN SumSeq(Column(unrealized.rows, "pnl"))
    ELSE 0

\* KPIs taken over every trade of the ledger, held ones included
KpiAllTrades(ledger) == ledger.rows

\* the closed trades calculate_kpis works on
KpiClosedTrades(ledger) == WithStatus(ledger, "closed")

\* a total that leaves the open positions out
TotalPnlRealizedOnly(realized_pnl, unrealized_pnl) == realized_pnl

\* the 総損益 entry of the KPI dictionary
TotalPnl(realized_pnl, unrealized_pnl) == realized_pnl + unrealized_pnl

\* calculate_kpis: the KPI dictionary, or KeyError when the ledger has no
\* ステータス column to select the closed trades on
calculate_kpis(ledger, unrealized, capital) ==
    LET closed_trades  == KpiClosedTrades(ledger)
        realized_pnl   == RealizedPnl(closed_trades)
        unrealized_pnl == UnrealizedPnl(unrealized)
    IN  IF "status" \notin ledger.columns THEN KeyError
        ELSE [trades          |-> Len(closed_trades),
              win_rate        |-> WinRate(closed_trades),
              avg_profit_rate |-> MeanOrZero(Column(Winners(closed_trades), "rate")),
              avg_loss_rate   |-> MeanOrZero(Column(Losers(closed_trades), "rate")),
              realized_pnl    |-> realized_pnl,
              unrealized_pnl  |-> unrealized_pnl,
              capital         |-> capital,
              total_pnl       |-> TotalPnl(realized_pnl, unrealized_pnl)]

\* whether sort_values may put key a before key b: ascending, NaT last
SortsBefore(a, b) == IF b = NaT THEN TRUE ELSE IF a = NaT THEN FALSE ELSE a <= b

\* no sort at all: the rows in any order
AnyOrders(rows) ==
    { order \in [1..Len(rows) -> 1..Len(rows)] :
        \A i, j \in 1..Len(rows) : i # j => order[i] # order[j] }

\* the orders sort_values("売付日") may return the rows in: every permutation
\* that is ascending in the sale date; the default sort is not stable, so
\* rows of equal sale date come out in an order the build decides
SortOrders(rows) ==
    { order \in [1..Len(rows) -> 1..Len(rows)] :
        /\ \A i, j \in 1..Len(rows) : i # j => order[i] # order[j]
        /\ \A i \in 1..(Len(rows) - 1) :
              SortsBefore(rows[order[i]].sellDate, rows[order[i + 1]].sellDate) }

\* the closed trades of the ledger in the order the sort returned
EquityClosed(ledger, order) ==
    LET closed == WithStatus(ledger, "closed")
    IN  [i \in 1..Len(closed) |-> closed[order[i]]]

\* the loop over the closed trades: one point per trade, carrying the sale
\* date and capital + cumulative realized P&L
RECURSIVE EquityLoop(_, _, _)
EquityLoop(closed, cumulative, capital) ==
    IF closed = <<>> THEN <<>>
    ELSE LET next == cumulative + Head(closed).pnl
         IN  <<[date |-> Head(closed).sellDate, equity |-> capital + next,
                capital |-> capital]>>
                 \o EquityLoop(Tail(closed), next, capital)

\* the value of the trailing point
CurrentEquity(points, unrealized_pnl, capital) ==
    IF points # <<>> THEN points[Len(points)].equity + unrealized_pnl
    ELSE capital + unrealized_pnl

\* what calculate_equity_curve returns for an empty ledger
EquityOfEmptyLedger(capital, now) == EmptyFrame

\* an equity curve that ends at the last sale, with no trailing point
EquityWithoutNow(ledger, unrealized, capital, now, order) ==
    IF IsEmpty(ledger) THEN EquityOfEmptyLedger(capital, now)
    ELSE [columns |-> {"date", "equity", "capital"},
          rows |-> EquityLoop(EquityClosed(ledger, order), 0, capital)]

\* calculate_equity_curve; now is what pd.Timestamp.now() returns and order
\* the order sort_values returned the closed trades in
calculate_equity_curve(ledger, unrealized, capital, now, order) ==
    IF IsEmpty(ledger) THEN EquityOfEmptyLedger(capital, now)
    ELSE LET points == EquityLoop(EquityClosed(ledger, order), 0, capital)
             current_equity == CurrentEquity(points, UnrealizedPnl(unrealized), capital)
         IN  [columns |-> {"date", "equity", "capital"},
              rows |-> Append(points, [date |-> now, equity |-> current_equity,
                                       capital |-> capital])]

\* two decimal digits
TwoDigits(n) == IF n < 10 THEN "0" \o ToString(n) ELSE ToString(n)

\* Timestamp.strftime("%Y-%m-%d"); day d of the model is 2024-01-d
strftime(d) == "2024-01-" \o TwoDigits(d)

\* the date cell of a summary row: the formatted date, "" for NaT
DateCell(d) == IF d # NaT THEN strftime(d) ELSE ""

\* the number of binary digits of q
RECURSIVE BitLength(_)
BitLength(q) == IF q = 0 THEN 0 ELSE 1 + BitLength(q \div 2)

RECURSIVE IsPowerOfTwo(_)
IsPowerOfTwo(q) == q = 1 \/ (q > 1 /\ q % 2 = 0 /\ IsPowerOfTwo(q \div 2))

RECURSIVE PowerOfTwo(_)
PowerOfTwo(k) == IF k = 0 THEN 1 ELSE 2 * PowerOfTwo(k - 1)

\* the position of the first binary digit 1 of r / d, for 0 < r < d
RECURSIVE LeadingSteps(_, _)
LeadingSteps(r, d) == IF 2 * r >= d THEN 1 ELSE 1 + LeadingSteps(2 * r, d)

\* steps more binary digits of a quotient by d: st carries the remainder,
\* whether the last digit was 1, and whether no, one or more digits 1 came
RECURSIVE Divide(_, _, _)
Divide(st, d, steps) ==
    IF steps = 0 THEN st
    ELSE IF 2 * st.rem >= d
         THEN Divide([rem |-> 2 * st.rem - d, odd |-> TRUE,
                      ones |-> IF st.ones = 0 THEN 1 ELSE 2], d, steps - 1)
         ELSE Divide([rem |-> 2 * st.rem, odd |-> FALSE, ones |-> st.ones], d, steps - 1)

\* the number of binary digits taken after the integer part q of n / d to
\* fill the 53 digits of a double's significand
FractionDigits(n, d, q) ==
    IF q > 0 THEN 53 - BitLength(q) ELSE LeadingSteps(n, d) + 52

\* the expansion whose long division ended in st after exp digits
Expanded(st, exp) ==
    [exp |-> exp, rem |-> st.rem, odd |-> st.odd, pow2 |-> st.ones = 1]

\* the long division of n by d, from the integer part q on
ExpansionFrom(n, d, q, steps) ==
    Expanded(Divide([rem |-> n % d, odd |-> q % 2 = 1,
                     ones |-> IF q = 0 THEN 0 ELSE IF IsPowerOfTwo(q) THEN 1 ELSE 2],
                    d, steps),
             steps)

\* n / d, for n > 0, cut after the 53 binary digits of a double's
\* significand: n / d = (M + rem / d) / 2^exp with M of 53 digits; odd tells
\* whether M is odd, pow2 whether M is a power of two
Expansion(n, d) ==
    ExpansionFrom(n, d, n \div d, FractionDigits(n, d, n \div d))

\* what rounding the quotient to the nearest double, halves to the even
\* significand, adds to it, in d-ths of its last digit
QuotientError(quotient, d) ==
    IF 2 * quotient.rem > d \/ (2 * quotient.rem = d /\ quotient.odd)
    THEN d - quotient.rem ELSE 0 - quotient.rem

\* where the nearest double of (M + N / D) / 2^exp lies to the exact value
\* (M + rem / d) / 2^exp: 1 above, 0 on it, -1 below
Nearest(exact, N, D) ==
    IF 2 * N > D \/ (2 * N = D /\ exact.odd) THEN 1
    ELSE IF exact.rem # 0 THEN 0 - 1
    ELSE IF N >= 0 THEN 0
    ELSE IF exact.pow2 THEN (IF 4 * (0 - N) > D THEN 0 - 1 ELSE 0)
    ELSE IF 2 * (0 - N) > D \/ (2 * (0 - N) = D /\ exact.odd) THEN 0 - 1
    ELSE 0

\* the product of the rounded quotient and s, rounded in its turn, against
\* the exact value; shift is 2 to the digits the product has fewer
ProductError(quotient, exact, d, s, shift) ==
    Nearest(exact, exact.rem * shift + s * QuotientError(quotient, d), d * shift)

\* the same, from the two expansions
ExpansionError(quotient, exact, d, s) ==
    ProductError(quotient, exact, d, s, PowerOfTwo(quotient.exp - exact.exp))

\* how the double n / d * s lies to the exact value n * s / d, for n > 0:
\* 1 above, 0 on it, -1 below
DoubleError(n, d, s) == ExpansionError(Expansion(n, d), Expansion(n * s, d), d, s)

\* the hundredths of a halfway value n * s / d = (floor + 1/2) / 100: the
\* double is halfway only when it is exactly x.xx5, and then the even
\* hundredth is taken
HalfwayHundredths(floor, error) ==
    IF error > 0 THEN floor + 1
    ELSE IF error < 0 THEN floor
    ELSE floor + (floor % 2)

\* the hundredths of the double n / d * s, for n >= 0, where floor is the
\* whole number of hundredths in the exact value
NearestHundredths(n, d, s, floor) ==
    IF 2 * (n * s * 100 - floor * d) > d THEN floor + 1
    ELSE IF 2 * (n * s * 100 - floor * d) < d THEN floor
    ELSE HalfwayHundredths(floor, DoubleError(n, d, s))

\* the magnitude of a value in hundredths, as the format ".2f" rounds it:
\* to the nearest hundredth of the double itself
HundredthsOf(n, d, s) == NearestHundredths(n, d, s, (n * s * 100) \div d)

\* a double rounded to hundredths
Hundredths(frac) ==
    IF frac.num < 0
    THEN 0 - HundredthsOf(0 - frac.num, frac.den, frac.scale)
    ELSE HundredthsOf(frac.num, frac.den, frac.scale)

\* f"{value:.2f}%": the sign is the sign of the value, also when it rounds
\* to 0.00
FormatRate(frac) ==
    LET h == Hundredths(frac)
        a == IF h < 0 THEN 0 - h ELSE h
    IN  (IF frac.num < 0 THEN "-" ELSE "") \o ToString(a \div 100) \o "."
            \o TwoDigits(a % 100) \o "%"

SummaryColumns == {"name", "code", "status", "buyDate", "sellDate", "pnl", "rate"}

\* the row get_trade_summary_table appends for a closed trade
ClosedSummaryRow(row) ==
    [name |-> row.name, code |-> row.code, status |-> "closed",
     buyDate |-> DateCell(row.buyDate), sellDate |-> DateCell(row.sellDate),
     pnl |-> row.pnl, rate |-> FormatRate(Frac(row.rate, 1))]

\* the row get_trade_summary_table appends for a row of the unrealized table
\* that has a 損益 column
HoldingSummaryRow(row) ==
    [name |-> row.name, code |-> row.code, status |-> "holding",
     buyDate |-> DateCell(row.buyDate), sellDate |-> "-",
     pnl |-> row.pnl, rate |-> FormatRate(row.rate)]

\* whether the loop over the unrealized table raises KeyError: it reads the
\* 損益 cell of each row
SummaryRaises(unrealized) ==
    ~IsEmpty(unrealized) /\ "pnl" \notin unrealized.columns

\* pd.DataFrame(rows) of a list of dictionaries
FrameOf(rows, columns) ==
    IF rows = <<>> THEN EmptyFrame ELSE [columns |-> columns, rows |-> rows]

\* get_trade_summary_table: the exception it raises, if any, and the table;
\* it raises KeyError when the ledger has no ステータス column and when the
\* unrealized table has rows and no 損益 column
get_trade_summary_table(ledger, unrealized) ==
    LET closed == WithStatus(ledger, "closed")
        closed_rows == [i \in 1..Len(closed) |-> ClosedSummaryRow(closed[i])]
    IN  IF "status" \notin ledger.columns \/ SummaryRaises(unrealized)
        THEN [raised |-> "KeyError", table |-> EmptyFrame]
        ELSE [raised |-> "none",
              table |-> FrameOf(
                  closed_rows \o
                      (IF IsEmpty(unrealized) THEN <<>>
                       ELSE [i \in 1..Len(unrealized.rows) |->
                                HoldingSummaryRow(unrealized.rows[i])]),
                  SummaryColumns)]

(* ------------------------------ app.py --------------------------------- *)

\* a result that has not been computed yet
Unset == [unset |-> TRUE]

\* no chart is being drawn
NoPlot ==
    /\ trade_row = Unset
    /\ today = 0
    /\ stock_data = [none |-> TRUE, dates |-> <<>>]
    /\ chart = Unset

\* no Notion database is being fetched
NoFetch ==
    /\ records = <<>>
    /\ requests = <<>>
    /\ responses = <<>>
    /\ all_results = <<>>
    /\ has_more = FALSE
    /\ start_cursor = None
    /\ returned = Unset

\* no synchronisation is running
NoSync ==
    /\ db_ids = <<>>
    /\ sync_pos = 0
    /\ notion_log = <<>>
    /\ local_files = {}
    /\ github_files = {}
    /\ push_errors = {}
    /\ results = {}

\* no ledger is loaded
NoAccounting ==
    /\ ledger_file = Unset
    /\ df = EmptyFrame
    /\ fetched = <<>>
    /\ unrealized_df = EmptyFrame
    /\ kpis = Unset
    /\ equity_df = EmptyFrame
    /\ summary_table = EmptyFrame
    /\ raised = "none"

\* what the price service may do for the held trades of a ledger
Fetches(ledger) == [HoldingIdx(ledger) -> FetchOutcomes]

Init ==
    /\ pc = "start"
    /\ market \in Markets
    /\ ledger_file \in LedgerFiles
    /\ df = EmptyFrame
    /\ fetched = <<>>
    /\ unrealized_df = EmptyFrame
    /\ kpis = Unset
    /\ equity_df = EmptyFrame
    /\ summary_table = EmptyFrame
    /\ raised = "none"
    /\ NoPlot /\ NoFetch /\ NoSync

\* main: df = load_trade_data(...); its exception ends the run
MainLoad ==
    /\ pc = "start"
    /\ LET result == load_trade_data(ledger_file)
       IN  IF Raised(result)
           THEN /\ raised' = result.raised
                /\ pc' = "load_crashed"
                /\ UNCHANGED df
           ELSE /\ df' = result
                /\ pc' = "main"
                /\ UNCHANGED raised
    /\ UNCHANGED <<market, ledger_file, fetched, unrealized_df, kpis, equity_df, summary_table>>
    /\ UNCHANGED <<plotVars, fetchVars, syncVars>>

\* main: the ledger file is missing or has no row; warn and return
MainNoData ==
    /\ pc = "main"
    /\ IsEmpty(df)
    /\ pc' = "no_data"
    /\ UNCHANGED <<market, ledger_file, df, fetched, unrealized_df, kpis, equity_df, summary_table, raised>>
    /\ UNCHANGED <<plotVars, fetchVars, syncVars>>

\* main: unrealized_df = calculate_unrealized_pnl(df, market_key)
MainUnrealized ==
    /\ pc = "main"
    /\ ~IsEmpty(df)
    /\ \E fetch \in Fetches(df) :
          /\ fetched' = fetch
          /\ unrealized_df' = calculate_unrealized_pnl(df, fetch)
    /\ pc' = "unrealized_done"
    /\ UNCHANGED <<market, ledger_file, df, kpis, equity_df, summary_table, raised>>
    /\ UNCHANGED <<plotVars, fetchVars, syncVars>>

\* main: kpis = calculate_kpis(df, unrealized_df, capital)
MainKpis ==
    /\ pc = "unrealized_done"
    /\ kpis' = calculate_kpis(df, unrealized_df, CAPITAL[market])
    /\ pc' = "kpis_done"
    /\ UNCHANGED <<market, ledger_file, df, fetched, unrealized_df, equity_df, summary_table, raised>>
    /\ UNCHANGED <<plotVars, fetchVars, syncVars>>

\* main, view mode 総合サマリー: the equity curve is computed and plotted
MainSummary ==
    /\ pc = "kpis_done"
    /\ \E now \in Times, order \in SortOrders(WithStatus(df, "closed")) :
          equity_df' = calculate_equity_curve(df, unrealized_df, CAPITAL[market], now, order)
    /\ pc' = "summary_shown"
    /\ UNCHANGED <<market, ledger_file, df, fetched, unrealized_df, kpis, summary_table, raised>>
    /\ UNCHANGED <<plotVars, fetchVars, syncVars>>

\* main, view mode 個別トレード: the summary table is built and shown; an
\* exception of get_trade_summary_table ends the run
MainTrades ==
    /\ pc = "kpis_done"
    /\ LET result == get_trade_summary_table(df, unrealized_df)
       IN  /\ raised' = result.raised
           /\ summary_table' = result.table
           /\ pc' = IF result.raised = "none" THEN "trades_shown" ELSE "crashed"
    /\ UNCHANGED <<market, ledger_file, df, fetched, unrealized_df, kpis, equity_df>>
    /\ UNCHANGED <<plotVars, fetchVars, syncVars>>

Next == MainLoad \/ MainNoData \/ MainUnrealized \/ MainKpis \/ MainSummary \/ MainTrades

Spec == Init /\ [][Next]_vars

(* ------------------- the functions called on their own ------------------ *)

\* a table of unrealized positions in the shape modules/kpi.py reads: the
\* P&L of a position is in the column 損益
WithPnlColumn(frame) ==
    IF IsEmpty(frame) THEN frame
    ELSE [columns |-> (frame.columns \ {"unrealized_pnl"}) \cup {"pnl"},
          rows |-> [i \in 1..Len(frame.rows) |->
                      [name |-> frame.rows[i].name, code |-> frame.rows[i].code,
                       buyDate |-> frame.rows[i].buyDate,
                       buyPrice |-> frame.rows[i].buyPrice,
                       current_price |-> frame.rows[i].current_price,
                       quantity |-> frame.rows[i].quantity,
                       purchase_value |-> frame.rows[i].purchase_value,
                       current_value |-> frame.rows[i].current_value,
                       pnl |-> frame.rows[i].unrealized_pnl,
                       rate |-> frame.rows[i].rate]]]

\* the unrealized-position tables a caller passes along with a ledger: the
\* one calculate_unrealized_pnl made of it, as it is or in the shape
\* modules/kpi.py reads, and pd.DataFrame() when it could make none
CallerTables(ledger, fetch) ==
    LET made == calculate_unrealized_pnl(ledger, fetch)
    IN  IF Raised(made) THEN {EmptyFrame} ELSE {made, WithPnlColumn(made)}

InitFn ==
    /\ pc = "call"
    /\ market \in Markets
    /\ ledger_file = Unset
    /\ df \in Ledgers
    /\ \E fetch \in Fetches(df) :
          /\ fetched = fetch
          /\ unrealized_df \in CallerTables(df, fetch)
    /\ kpis = Unset
    /\ equity_df = EmptyFrame
    /\ summary_table = EmptyFrame
    /\ raised = "none"
    /\ NoPlot /\ NoFetch /\ NoSync

CallKpis ==
    /\ pc = "call"
    /\ LET result == calculate_kpis(df, unrealized_df, CAPITAL[market])
       IN  IF Raised(result)
           THEN /\ raised' = result.raised
                /\ pc' = "kpis_raised"
                /\ UNCHANGED kpis
           ELSE /\ kpis' = result
                /\ pc' = "kpis_returned"
                /\ UNCHANGED raised
    /\ UNCHANGED <<market, ledger_file, df, fetched, unrealized_df, equity_df, summary_table>>
    /\ UNCHANGED <<plotVars, fetchVars, syncVars>>

CallEquityCurve ==
    /\ pc = "call"
    /\ \E now \in Times, order \in SortOrders(WithStatus(df, "closed")) :
          equity_df' = calculate_equity_curve(df, unrealized_df, CAPITAL[market], now, order)
    /\ pc' = "equity_returned"
    /\ UNCHANGED <<market, ledger_file, df, fetched, unrealized_df, kpis, summary_table, raised>>
    /\ UNCHANGED <<plotVars, fetchVars, syncVars>>

CallSummaryTable ==
    /\ pc = "call"
    /\ LET result == get_trade_summary_table(df, unrealized_df)
       IN  /\ raised' = result.raised
           /\ summary_table' = result.table
           /\ pc' = IF result.raised = "none" THEN "table_returned" ELSE "table_raised"
    /\ UNCHANGED <<market, ledger_file, df, fetched, unrealized_df, kpis, equity_df>>
    /\ UNCHANGED <<plotVars, fetchVars, syncVars>>

NextFn == CallKpis \/ CallEquityCurve \/ CallSummaryTable

SpecFn == InitFn /\ [][NextFn]_vars

(* ------------------------ modules/trade_plot.py ------------------------ *)

\* lookback_days, as main passes it
LookbackDays == 20

Days == 1..MaxDay

\* the rows of the ledger main may hand to plot_trade_chart, with the day
\* the chart is drawn on: a trade is charted on or after its entry and exit
PlotTrades ==
    { [buyDate |-> e, sellDate |-> x, status |-> IF x = NaT THEN "holding" ELSE "closed"] :
        e \in Days, x \in {NaT} \cup Days }

\* the days of S in ascending order, as the index of a price series is
RECURSIVE Ascending(_)
Ascending(S) ==
    IF S = {} THEN <<>>
    ELSE LET first == CHOOSE d \in S : \A e \in S : d <= e
         IN  <<first>> \o Ascending(S \ {first})

\* start_date and end_date of the range plot_trade_chart asks for
start_date(row) == row.buyDate - (LookbackDays + 10)
end_date(row, now) == IF row.sellDate # NaT THEN row.sellDate + 5 ELSE now + 1

\* what Ticker.history(start, end) may do: raise, or return the trading
\* days it has in [start, end), possibly none
Histories(start, end) ==
    {[kind |-> "raise", dates |-> <<>>]}
        \cup { [kind |-> "data", dates |-> Ascending(S)] :
                 S \in SUBSET { d \in Days : start <= d /\ d < end } }

\* get_stock_data: None when the download raised or came back empty
get_stock_data(history) ==
    IF history.kind = "raise" \/ history.dates = <<>>
    THEN [none |-> TRUE, dates |-> <<>>]
    ELSE [none |-> FALSE, dates |-> history.dates]

\* the first trading day strictly after the date
FirstAfter(dates, date) ==
    LET later == { i \in 1..Len(dates) : dates[i] > date }
    IN  IF later = {} THEN None
        ELSE Some((CHOOSE i \in later : \A j \in later : i <= j) - 1)

\* the loop that looks for a marker position: the index, counted from 0, of
\* the first trading day on or after the date, None when there is none
FirstOnOrAfter(dates, date) ==
    LET later == { i \in 1..Len(dates) : dates[i] >= date }
    IN  IF later = {} THEN None
        ELSE Some((CHOOSE i \in later : \A j \in later : i <= j) - 1)

\* plot_trade_chart, given what get_stock_data returned: the kind of figure
\* and the positions of the entry, exit and current-price markers
plot_trade_chart(row, data) ==
    IF data.none \/ data.dates = <<>>
    THEN [kind |-> "failed", entry |-> None, exit |-> None, current |-> None]
    ELSE [kind |-> "candles",
          entry |-> FirstOnOrAfter(data.dates, row.buyDate),
          exit |-> IF row.sellDate # NaT
                   THEN FirstOnOrAfter(data.dates, row.sellDate) ELSE None,
          current |-> IF row.status = "holding"
                      THEN Some(Len(data.dates) - 1) ELSE None]

InitPlot ==
    /\ pc = "plot"
    /\ market \in Markets
    /\ trade_row \in { r \in PlotTrades : r.sellDate = NaT \/ r.buyDate <= r.sellDate }
    /\ today \in { d \in Days : trade_row.buyDate <= d /\ trade_row.sellDate <= d }
    /\ stock_data = [none |-> TRUE, dates |-> <<>>]
    /\ chart = Unset
    /\ NoAccounting /\ NoFetch /\ NoSync

\* main: fig = plot_trade_chart(trade_row, market_key, lookback_days=20)
PlotTradeChart ==
    /\ pc = "plot"
    /\ \E history \in Histories(start_date(trade_row), end_date(trade_row, today)) :
          /\ stock_data' = get_stock_data(history)
          /\ chart' = plot_trade_chart(trade_row, get_stock_data(history))
    /\ pc' = "plotted"
    /\ UNCHANGED <<market, trade_row, today>>
    /\ UNCHANGED <<accountingVars, fetchVars, syncVars>>

NextPlot == PlotTradeChart

SpecPlot == InitPlot /\ [][NextPlot]_vars

(* ------------------- modules/notion_sync.py: fetching ------------------ *)

\* "page_size" of every query
PageSize == 100

\* the databases explored: the pages of the database are numbered from 1
Databases == { [i \in 1..n |-> i] : n \in 0..MaxRecords }

\* the Notion API as its contract describes it: the query without cursor
\* answers the first page_size pages, the query with cursor k the k-th batch,
\* with has_more and next_cursor set while pages remain
Batch(database, k, size) ==
    SubSeq(database, (k - 1) * size + 1,
           IF k * size < Len(database) THEN k * size ELSE Len(database))

Respond(database, payload, status) ==
    LET k == IF payload.start_cursor.none THEN 1 ELSE payload.start_cursor.value
        more == k * payload.page_size < Len(database)
    IN  IF status # 200
        THEN [status |-> status, results |-> <<>>, has_more |-> FALSE, next_cursor |-> None]
        ELSE [status |-> 200, results |-> Batch(database, k, payload.page_size), has_more |-> more,
              next_cursor |-> IF more THEN Some(k + 1) ELSE None]

Statuses == {200, 429}

\* a payload that never carries the cursor
PayloadWithoutCursor(cursor) == [page_size |-> PageSize, start_cursor |-> None]

\* the payload of one query: start_cursor is set only when there is a cursor
Payload(cursor) ==
    [page_size |-> PageSize, start_cursor |-> IF cursor.none THEN None ELSE cursor]

InitFetch ==
    /\ pc = "fetching"
    /\ market \in Markets
    /\ records \in Databases
    /\ requests = <<>>
    /\ responses = <<>>
    /\ all_results = <<>>
    /\ has_more = TRUE
    /\ start_cursor = None
    /\ returned = Unset
    /\ NoAccounting /\ NoPlot /\ NoSync

\* one turn of the while loop of fetch_notion_database
FetchRequest ==
    /\ pc = "fetching"
    /\ has_more
    /\ \E status \in Statuses :
          LET payload == Payload(start_cursor)
              response == Respond(records, payload, status)
          IN  /\ requests' = Append(requests, payload)
              /\ responses' = Append(responses, response)
              /\ IF response.status # 200
                 THEN /\ pc' = "fetch_raised"
                      /\ UNCHANGED <<all_results, has_more, start_cursor>>
                 ELSE /\ pc' = "fetching"
                      /\ all_results' = all_results \o response.results
                      /\ has_more' = response.has_more
                      /\ start_cursor' = response.next_cursor
    /\ UNCHANGED <<market, records, returned>>
    /\ UNCHANGED <<accountingVars, plotVars, syncVars>>

\* the loop is left and all_results returned
FetchReturn ==
    /\ pc = "fetching"
    /\ ~has_more
    /\ returned' = Some(all_results)
    /\ pc' = "fetch_returned"
    /\ UNCHANGED <<market, records, requests, responses, all_results, has_more, start_cursor>>
    /\ UNCHANGED <<accountingVars, plotVars, syncVars>>

NextFetch == FetchRequest \/ FetchReturn

SpecFetch == InitFetch /\ [][NextFetch]_vars

(* -------------------- modules/notion_sync.py: syncing ------------------ *)

\* the datasets of sync_all_databases in the order the loop visits them
Datasets == <<"japan_swing", "japan_long", "us_swing", "us_long">>

\* what db_ids may hold for a dataset: nothing, the placeholder of
\* config.py ("YOUR_..."), or the id of a database
DbIdKinds == {"missing", "placeholder", "id"}

\* only a missing id is skipped
SkippedWhenMissing(db_id) == db_id = "missing"

\* not db_id or db_id.startswith("YOUR_")
Skipped(db_id) == db_id = "missing" \/ db_id = "placeholder"

\* what fetch_notion_database may do when called for a dataset
FetchResults == {"raised", "returned"}

\* status codes of the PUT of sync_to_github
PutStatuses == {200, 201, 409}

\* sync_to_github raises unless the PUT answers 200 or 201
sync_to_github(status) == IF status \notin {200, 201} THEN "raised" ELSE "ok"

\* the files of one dataset that the try block of the loop pushes: the CSV
\* first, the JSON only when the CSV went through
Pushed(key, csv_status, json_status) ==
    IF sync_to_github(csv_status) = "raised" THEN {}
    ELSE IF sync_to_github(json_status) = "raised" THEN {<<key, "csv">>}
    ELSE {<<key, "csv">>, <<key, "json">>}

InitSync ==
    /\ pc = "syncing"
    /\ market \in Markets
    /\ db_ids \in [{Datasets[i] : i \in 1..Len(Datasets)} -> DbIdKinds]
    /\ sync_pos = 1
    /\ notion_log = <<>>
    /\ local_files = {}
    /\ github_files = {}
    /\ push_errors = {}
    /\ results = {}
    /\ NoAccounting /\ NoPlot /\ NoFetch

\* a turn of the loop for a dataset without database id: continue
SyncSkip ==
    /\ pc = "syncing"
    /\ sync_pos <= Len(Datasets)
    /\ Skipped(db_ids[Datasets[sync_pos]])
    /\ sync_pos' = sync_pos + 1
    /\ UNCHANGED <<pc, market, db_ids, notion_log, local_files, github_files, push_errors, results>>
    /\ UNCHANGED <<accountingVars, plotVars, fetchVars>>

\* a turn of the loop for a configured dataset: fetch from Notion, write the
\* local files, push both to GitHub inside the try block, record the table.
\* An exception of the fetch leaves sync_all_databases and reaches the
\* except clause of main
SyncDataset ==
    /\ pc = "syncing"
    /\ sync_pos <= Len(Datasets)
    /\ ~Skipped(db_ids[Datasets[sync_pos]])
    /\ \E fetch \in FetchResults, csv_status \in PutStatuses, json_status \in PutStatuses :
          LET key == Datasets[sync_pos]
              pushed == Pushed(key, csv_status, json_status)
          IN  /\ notion_log' = Append(notion_log, [key |-> key, outcome |-> fetch])
              /\ IF fetch = "raised"
                 THEN /\ pc' = "sync_raised"
                      /\ UNCHANGED <<sync_pos, local_files, github_files, push_errors, results>>
                 ELSE /\ pc' = "syncing"
                      /\ local_files' = local_files \cup {<<key, "csv">>, <<key, "json">>}
                      /\ github_files' = github_files \cup pushed
                      /\ push_errors' = IF <<key, "json">> \in pushed
                                        THEN push_errors ELSE push_errors \cup {key}
                      /\ results' = results \cup {key}
                      /\ sync_pos' = sync_pos + 1
    /\ UNCHANGED <<market, db_ids>>
    /\ UNCHANGED <<accountingVars, plotVars, fetchVars>>

\* the loop is over: return results, and main reports success
SyncReturn ==
    /\ pc = "syncing"
    /\ sync_pos = Len(Datasets) + 1
    /\ pc' = "sync_returned"
    /\ UNCHANGED <<market, db_ids, sync_pos, notion_log, local_files, github_files, push_errors, results>>
    /\ UNCHANGED <<accountingVars, plotVars, fetchVars>>

NextSync == SyncSkip \/ SyncDataset \/ SyncReturn

SpecSync == InitSync /\ [][NextSync]_vars

(* ------------------------------ properties ----------------------------- *)

RECURSIVE SumOver(_, _)
SumOver(S, f) ==
    IF S = {} THEN 0
    ELSE LET x == CHOOSE y \in S : TRUE IN f[x] + SumOver(S \ {x}, f)

Bijections(n) ==
    { f \in [1..n -> 1..n] : \A i, j \in 1..n : i # j => f[i] # f[j] }

ClosedIdx == { i \in 1..Len(df.rows) : df.rows[i].status = "closed" }
OpenIdx == { i \in 1..Len(df.rows) : df.rows[i].status = "holding" }

\* the current price of the open trade at position i: the looked-up price,
\* the purchase price when the lookup failed
ResolvedPrice(i) ==
    IF fetched[i].kind = "close" THEN fetched[i].close ELSE df.rows[i].buyPrice

\* (current price - purchase price) * quantity of the open trade at i
OpenPnlOf(i) == (ResolvedPrice(i) - df.rows[i].buyPrice) * df.rows[i].qty

\* total unrealized P&L of the open trades of the ledger
OpenPnlTotal == SumOver(OpenIdx, [i \in OpenIdx |-> OpenPnlOf(i)])

\* total realized P&L of the closed trades of the ledger
ClosedPnlTotal == SumOver(ClosedIdx, [i \in ClosedIdx |-> df.rows[i].pnl])

\* main has computed the KPI snapshot
KpisComputed == pc \in {"kpis_done", "summary_shown", "trades_shown", "crashed"}

\* C1: in main, the total unrealized P&L of the KPI snapshot is the sum of
\* (current price - purchase price) * quantity over the open trades, 0 when
\* there is none.
C1_KpiUnrealizedIsPositionSum ==
    KpisComputed => kpis.unrealized_pnl = OpenPnlTotal

\* the summary row r shows the trade at position i of the ledger
ShowsTrade(r, i) ==
    IF df.rows[i].status = "closed"
    THEN r.status = "closed" /\ r.pnl = df.rows[i].pnl
    ELSE r.status = "holding" /\ r.pnl = OpenPnlOf(i) /\ r.sellDate = "-"

\* C2: in main, get_trade_summary_table returns without raising, with
\* exactly one row per trade: a closed row carrying the realized P&L per
\* closed trade, an open row carrying the unrealized P&L and the exit date
\* "-" per open trade.
C2_SummaryOneRowPerTrade ==
    pc \in {"trades_shown", "crashed"} =>
        /\ raised = "none"
        /\ Len(summary_table.rows) = Len(df.rows)
        /\ \E f \in Bijections(Len(df.rows)) :
              \A i \in 1..Len(df.rows) : ShowsTrade(summary_table.rows[f[i]], i)

\* the original reading of C3: closed trades + 1 points for every ledger,
\* the empty one included
C3_EquityLengthEveryLedger ==
    pc = "equity_returned" => Len(equity_df.rows) = Cardinality(ClosedIdx) + 1

\* C3 (amended): for every non-empty ledger calculate_equity_curve returns
\* exactly (number of closed trades) + 1 points; for the empty ledger it
\* returns an empty table, with no point at all.
C3_EquityLength ==
    pc = "equity_returned" =>
        IF IsEmpty(df) THEN equity_df = EmptyFrame
        ELSE Len(equity_df.rows) = Cardinality(ClosedIdx) + 1

\* a curve was computed for a ledger with two closed trades and an open one
C3_Witness ==
    /\ pc = "equity_returned"
    /\ Cardinality(ClosedIdx) = 2
    /\ OpenIdx # {}
    /\ Len(equity_df.rows) = 3

\* the timestamps of the points i < j of the curve, up to point n, ascend
DatesAscend(n) ==
    \A i, j \in 1..n : i < j => equity_df.rows[i].date <= equity_df.rows[j].date

\* the original reading of C4: the timestamps of the curve never decrease,
\* the trailing point included, wherever the sale dates lie
C4_EquityDatesNeverDecrease ==
    pc = "summary_shown" => DatesAscend(Len(equity_df.rows))

\* C4 (amended): for a ledger whose closed trades all have a sale date, the
\* timestamps of the closed-trade points are non-decreasing in output order;
\* the step to the trailing "now" point is non-decreasing when no closed
\* trade was sold later than the evaluation time, and decreasing otherwise.
C4_EquityDatesAscendUpToNow ==
    pc = "summary_shown" =>
        LET n == Len(equity_df.rows)
            now == equity_df.rows[n].date
        IN  /\ DatesAscend(n - 1)
            /\ DatesAscend(n) <=> (\A i \in ClosedIdx : df.rows[i].sellDate <= now)

\* the curve of a ledger whose closed trades are recorded latest sale first,
\* all sold before the evaluation time
C4_Witness ==
    /\ pc = "summary_shown"
    /\ Len(df.rows) >= 2
    /\ df.rows[1].status = "closed" /\ df.rows[2].status = "closed"
    /\ df.rows[1].sellDate > df.rows[2].sellDate
    /\ DatesAscend(Len(equity_df.rows))

\* C5: in main, the k-th point of the curve is capital + the realized P&L of
\* the first k closed trades in ascending sale-date order, and the trailing
\* point is capital + total realized P&L + total unrealized P&L of the open
\* positions.
C5_EquityValues ==
    pc = "summary_shown" =>
        \E order \in SortOrders(WithStatus(df, "closed")) :
            LET closed == EquityClosed(df, order)
                n == Len(closed)
            IN  /\ Len(equity_df.rows) = n + 1
                /\ \A k \in 1..n :
                      equity_df.rows[k].equity =
                          CAPITAL[market] + SumSeq(Column(SubSeq(closed, 1, k), "pnl"))
                /\ equity_df.rows[n + 1].equity =
                      CAPITAL[market] + ClosedPnlTotal + OpenPnlTotal

\* main has computed the table of unrealized positions
UnrealizedComputed == pc = "unrealized_done" \/ KpisComputed

\* the row of the unrealized table of the open trade at position i
PositionRow(i) ==
    unrealized_df.rows[Cardinality({ j \in OpenIdx : j <= i })]

\* C6: when the price lookup of an open trade fails, its position is
\* reported with current price = purchase price, unrealized P&L 0 and
\* percentage 0, and every open trade still has its own row, the ones whose
\* lookup succeeded at the price that was returned.
C6_LookupFailureFallsBack ==
    UnrealizedComputed =>
        /\ Len(unrealized_df.rows) = Cardinality(OpenIdx)
        /\ \A i \in OpenIdx :
              IF fetched[i].kind = "close"
              THEN PositionRow(i).current_price = fetched[i].close
              ELSE /\ PositionRow(i).current_price = df.rows[i].buyPrice
                   /\ PositionRow(i).unrealized_pnl = 0
                   /\ PositionRow(i).rate.num = 0

\* a failed lookup of a trade bought above 0, followed by a lookup that
\* succeeded
C6_Witness ==
    /\ pc = "unrealized_done"
    /\ \E i, j \in OpenIdx :
          /\ i < j
          /\ fetched[i].kind = "raise" /\ df.rows[i].buyPrice > 0
          /\ fetched[j].kind = "close"
    /\ \E k \in OpenIdx : fetched[k].kind = "empty"

\* calculate_kpis has returned to its caller
KpisReturned == pc = "kpis_returned"

\* C7: the win rate calculate_kpis returns lies in [0, 100] and is 0 when
\* the ledger has no closed trade; the exact value is in that range, and so
\* is the double, 0 and 100 being doubles.  The call raises only for the
\* frame without columns that stands for a missing ledger file.
C7_WinRateInRange ==
    /\ KpisReturned =>
          /\ kpis.win_rate.den > 0
          /\ 0 <= kpis.win_rate.num
          /\ kpis.win_rate.num * kpis.win_rate.scale <= 100 * kpis.win_rate.den
          /\ ClosedIdx = {} => kpis.win_rate.num = 0
    /\ pc = "kpis_raised" => df = EmptyFrame

\* KPIs of a ledger with winners and other closed trades
C7_Witness ==
    /\ KpisReturned
    /\ 0 < kpis.win_rate.num
    /\ kpis.win_rate.num * kpis.win_rate.scale < 100 * kpis.win_rate.den

\* C8: total P&L = total realized P&L + total unrealized P&L, and the
\* principal of the snapshot is the capital passed in.
C8_TotalIsRealizedPlusUnrealized ==
    KpisReturned =>
        /\ kpis.total_pnl = kpis.realized_pnl + kpis.unrealized_pnl
        /\ kpis.capital = CAPITAL[market]

\* KPIs with both a realized and an unrealized part
C8_Witness ==
    /\ KpisReturned
    /\ kpis.realized_pnl # 0
    /\ kpis.unrealized_pnl # 0

\* the closed trades by the sign of their realized P&L
WonIdx == { i \in ClosedIdx : df.rows[i].pnl > 0 }
LostIdx == { i \in ClosedIdx : df.rows[i].pnl < 0 }
EvenIdx == { i \in ClosedIdx : df.rows[i].pnl = 0 }

\* the mean of the percentage change over the trades of S, 0 for none
MeanRateOver(S) ==
    IF S = {} THEN Frac(0, 1)
    ELSE Frac(SumOver(S, [i \in S |-> df.rows[i].rate]), Cardinality(S))

\* C9: a closed trade with realized P&L 0 counts in the trade count and in
\* the denominator of the win rate but neither as a winner nor as a loser;
\* the mean profit percentage is the mean over the winners and 0 without a
\* winner, the mean loss percentage the mean over the losers and 0 without
\* a loser.
C9_ZeroPnlInNeitherBucket ==
    KpisReturned =>
        /\ kpis.trades = Cardinality(WonIdx) + Cardinality(LostIdx) + Cardinality(EvenIdx)
        /\ kpis.trades > 0 =>
              kpis.win_rate = Float(Cardinality(WonIdx), kpis.trades, 100)
        /\ kpis.avg_profit_rate = MeanRateOver(WonIdx)
        /\ kpis.avg_loss_rate = MeanRateOver(LostIdx)
        /\ WonIdx = {} => kpis.avg_profit_rate.num = 0
        /\ LostIdx = {} => kpis.avg_loss_rate.num = 0

\* KPIs of a ledger with a winner, a loser and a trade that broke even
C9_Witness ==
    /\ KpisReturned
    /\ WonIdx # {} /\ LostIdx # {} /\ EvenIdx # {}

\* C10: total realized P&L is the sum of the realized P&L of the closed
\* trades only and the trade count counts the closed trades only, whatever
\* the realized-P&L field of an open trade holds.
C10_RealizedOverClosedOnly ==
    KpisReturned =>
        /\ kpis.realized_pnl = ClosedPnlTotal
        /\ kpis.trades = Cardinality(ClosedIdx)

\* KPIs of a ledger with closed trades and an open trade whose realized-P&L
\* field is not 0
C10_Witness ==
    /\ KpisReturned
    /\ ClosedIdx # {}
    /\ \E i \in OpenIdx : df.rows[i].pnl # 0

\* C11: the rows of the summary table main shows are sorted by entry date
\* in one direction, closed and open trades together.
C11_SummarySortedByEntryDate ==
    pc = "trades_shown" =>
        /\ Len(summary_table.rows) = Len(df.rows)
        /\ \E f \in Bijections(Len(df.rows)) :
              /\ \A k \in 1..Len(df.rows) :
                    summary_table.rows[k].buyDate = DateCell(df.rows[f[k]].buyDate)
              /\ \/ \A j, k \in 1..Len(df.rows) :
                       j < k => df.rows[f[j]].buyDate <= df.rows[f[k]].buyDate
                 \/ \A j, k \in 1..Len(df.rows) :
                       j < k => df.rows[f[j]].buyDate >= df.rows[f[k]].buyDate

\* C12: the unrealized percentage of a position is the floating-point value
\* unrealized P&L / (purchase price * quantity) * 100 when that denominator
\* is not 0 and 0 when it is 0, and no quotient is taken over 0.
C12_UnrealizedPercentage ==
    UnrealizedComputed =>
        \A i \in OpenIdx :
            LET rate == PositionRow(i).rate
                paid == df.rows[i].buyPrice * df.rows[i].qty
            IN  /\ rate.den # 0
                /\ IF paid # 0
                   THEN rate = Float(OpenPnlOf(i), paid, 100)
                   ELSE rate.num = 0

\* a position bought at 0 whose price moved, next to one bought above 0
\* whose price moved
C12_Witness ==
    /\ pc = "unrealized_done"
    /\ \E i, j \in OpenIdx :
          /\ df.rows[i].buyPrice = 0 /\ PositionRow(i).unrealized_pnl # 0
          /\ df.rows[j].buyPrice > 0 /\ PositionRow(j).rate.num # 0

\* C13: calculate_unrealized_pnl returns one position per open trade, in
\* ledger order, and none for a closed trade; for a ledger without open
\* trade it returns the empty table, and the KPIs computed from that report
\* total unrealized P&L 0.
C13_OnePositionPerOpenTrade ==
    UnrealizedComputed =>
        /\ Len(unrealized_df.rows) = Cardinality(OpenIdx)
        /\ \A i \in OpenIdx :
              /\ PositionRow(i).code = df.rows[i].code
              /\ PositionRow(i).buyDate = df.rows[i].buyDate
              /\ PositionRow(i).buyPrice = df.rows[i].buyPrice
              /\ PositionRow(i).quantity = df.rows[i].qty
        /\ OpenIdx = {} => unrealized_df = EmptyFrame
        /\ (OpenIdx = {} /\ KpisComputed) => kpis.unrealized_pnl = 0

\* positions of a ledger with a closed trade between two open ones
C13_Witness ==
    /\ pc = "unrealized_done"
    /\ Len(df.rows) = 3
    /\ df.rows[1].status = "holding" /\ df.rows[2].status = "closed" /\ df.rows[3].status = "holding"
    /\ df.rows[1].buyPrice # df.rows[3].buyPrice
    /\ Len(unrealized_df.rows) = 2

\* a chart was drawn over a price series that is not empty
ChartDrawn == pc = "plotted" /\ ~stock_data.none

\* marker sits on a trading day of the series that no other is nearer to date
OnNearestDay(marker, date) ==
    /\ ~marker.none
    /\ \A j \in 1..Len(stock_data.dates) :
          LET at == stock_data.dates[marker.value + 1]
              other == stock_data.dates[j]
          IN  (IF at >= date THEN at - date ELSE date - at)
                  <= (IF other >= date THEN other - date ELSE date - other)

\* the original reading of C15: each marker is on the trading day nearest
\* to its date and is drawn whenever the series is not empty
C15_MarkersOnNearestDay ==
    ChartDrawn =>
        /\ OnNearestDay(chart.entry, trade_row.buyDate)
        /\ trade_row.sellDate # NaT => OnNearestDay(chart.exit, trade_row.sellDate)

\* marker sits on the first trading day on or after date, and is missing
\* when every trading day lies before date
OnFirstDayOnOrAfter(marker, date) ==
    IF \E j \in 1..Len(stock_data.dates) : stock_data.dates[j] >= date
    THEN /\ ~marker.none
         /\ stock_data.dates[marker.value + 1] >= date
         /\ \A j \in 1..marker.value : stock_data.dates[j] < date
    ELSE marker.none

\* C15 (amended): the entry marker and the exit marker are each placed on
\* the first trading day of the fetched series on or after the entry date,
\* respectively exit date, whether or not an earlier trading day is nearer;
\* when every trading day of the series lies before the date, no marker is
\* drawn for it, and a trade without exit date gets no exit marker.
C15_MarkersOnFirstDayOnOrAfter ==
    ChartDrawn =>
        /\ OnFirstDayOnOrAfter(chart.entry, trade_row.buyDate)
        /\ IF trade_row.sellDate # NaT
           THEN OnFirstDayOnOrAfter(chart.exit, trade_row.sellDate)
           ELSE chart.exit.none

\* the entry marker sits on a day after the entry date although the day
\* before the entry date is nearer, and the series ends before the exit date
C15_Witness ==
    /\ ChartDrawn
    /\ ~chart.entry.none
    /\ stock_data.dates[chart.entry.value + 1] > trade_row.buyDate + 1
    /\ \E j \in 1..Len(stock_data.dates) : stock_data.dates[j] = trade_row.buyDate - 1
    /\ trade_row.sellDate # NaT /\ chart.exit.none

\* the results of the responses so far, one after the other
RECURSIVE ResultsOf(_)
ResultsOf(answers) ==
    IF answers = <<>> THEN <<>>
    ELSE ResultsOf(SubSeq(answers, 1, Len(answers) - 1)) \o answers[Len(answers)].results

\* C16: the first request of fetch_notion_database carries no cursor and
\* every later one carries the next_cursor of the response before it, so no
\* cursor is sent twice; the loop goes on only after a 200 response with
\* has_more true, and at the first response with has_more false it returns
\* the results of all responses in request order; a response other than 200
\* raises and nothing is returned.
C16_PaginationFollowsCursors ==
    /\ Len(requests) = Len(responses)
    /\ \A k \in 1..Len(requests) :
          /\ requests[k].page_size = PageSize
          /\ requests[k].start_cursor = IF k = 1 THEN None ELSE responses[k - 1].next_cursor
          /\ \A j \in 1..(k - 1) : requests[j].start_cursor # requests[k].start_cursor
          /\ k < Len(requests) => responses[k].status = 200 /\ responses[k].has_more
    /\ pc = "fetching" =>
          /\ returned = Unset
          /\ all_results = ResultsOf(responses)
    /\ pc = "fetch_returned" =>
          /\ responses # <<>>
          /\ responses[Len(responses)].status = 200
          /\ ~responses[Len(responses)].has_more
          /\ returned = Some(ResultsOf(responses))
          /\ returned = Some(records)
    /\ pc = "fetch_raised" =>
          /\ responses[Len(responses)].status # 200
          /\ returned = Unset

\* a database of more than two batches was fetched with three requests
C16_Witness ==
    /\ pc = "fetch_returned"
    /\ Len(requests) = 3
    /\ Len(returned.value) > 2 * PageSize

\* the keys Notion was asked for so far
Requested == { notion_log[i].key : i \in 1..Len(notion_log) }

\* the dataset at position i was fetched, written locally and recorded
Processed(i) ==
    /\ Datasets[i] \in Requested
    /\ {<<Datasets[i], "csv">>, <<Datasets[i], "json">>} \subseteq local_files
    /\ Datasets[i] \in results

\* nothing was done for the dataset at position i
Untouched(i) ==
    /\ Datasets[i] \notin Requested
    /\ Datasets[i] \notin results
    /\ Datasets[i] \notin push_errors
    /\ \A ext \in {"csv", "json"} :
          <<Datasets[i], ext>> \notin local_files /\ <<Datasets[i], ext>> \notin github_files

\* C17: a failed GitHub push of one dataset stops nothing: the dataset is
\* still in results with its local CSV and JSON written, and every configured
\* dataset is fetched, written and recorded by the time sync_all_databases
\* returns; a dataset whose id is missing or a "YOUR_" placeholder is skipped
\* without any request; the run is aborted only by a failed Notion fetch,
\* which leaves the configured datasets before it written and the datasets
\* after it untouched.
C17_PushFailureDoesNotStopSync ==
    /\ \A i \in 1..Len(Datasets) :
          /\ Datasets[i] \in push_errors => Processed(i)
          /\ db_ids[Datasets[i]] \in {"missing", "placeholder"} => Untouched(i)
          /\ i < sync_pos /\ db_ids[Datasets[i]] = "id" => Processed(i)
          /\ i > sync_pos => Untouched(i)
    /\ pc = "sync_returned" =>
          \A i \in 1..Len(Datasets) : db_ids[Datasets[i]] = "id" => Processed(i)
    /\ pc = "sync_raised" =>
          /\ notion_log[Len(notion_log)] = [key |-> Datasets[sync_pos], outcome |-> "raised"]
          /\ Datasets[sync_pos] \notin results
          /\ Datasets[sync_pos] \notin push_errors
          /\ \A ext \in {"csv", "json"} : <<Datasets[sync_pos], ext>> \notin local_files
    /\ pc # "sync_raised" =>
          \A k \in 1..Len(notion_log) : notion_log[k].outcome = "returned"

\* the push of the first dataset failed, the second dataset has a
\* placeholder id, and the third was still fetched, written and pushed
C17_Witness ==
    /\ pc = "sync_returned"
    /\ Datasets[1] \in push_errors
    /\ db_ids[Datasets[2]] = "placeholder"
    /\ Processed(3)
    /\ <<Datasets[3], "json">> \in github_files

====
